---- MODULE Spec2Model ----
(***************************************************************************)
(* State-machine model of the appointment list front-end:                  *)
(*   App (session holder) -> AppointmentList (list, loading, error,        *)
(*   search term, selection) -> hosted table / realtime service.           *)
(* Every asynchronous backend call is split at its `await`: one action     *)
(* issues the request, a later one serves it and runs the continuation,    *)
(* so that requests complete in any order and any other event may come     *)
(* in between.  The backend answers a request at the moment its            *)
(* continuation runs.                                                      *)
(***************************************************************************)
EXTENDS Integers, Sequences, FiniteSets, TLC

(* ----------------------------- bounds --------------------------------- *)
\* at most this many requests await their response, and at most this many
\* change notifications their delivery
MaxInflight == 2

(* --------------------------- the universe ------------------------------ *)
NoUser == "none"
Users == {"u1", "u2"}
NoError == "null"
FetchErrorMessage == "fetchError"

\* length of a local day, in clock instants
DayLen == 2

Ids == {1, 2, 3}
Statuses == {"pending", "cancelado", "sent"}

\* the immutable columns of the rows of table scheduled_messages: u1 owns
\* a row scheduled today and one scheduled tomorrow, u2 one of yesterday
Owner(id) == IF id = 3 THEN "u2" ELSE "u1"
Phone(id) == CASE id = 1 -> <<2, 1, 1>>
               [] id = 2 -> <<2, 1, 9>>
               [] OTHER  -> <<1, 1, 0>>
Sched(id) == CASE id = 1 -> 2
               [] id = 2 -> 4
               [] OTHER  -> 1

\* the statuses the rows take: only row 1 is given a legacy status
RowStatuses(id) == IF id = 1 THEN Statuses ELSE Statuses \ {"sent"}

\* the values the search box is given
SearchTerms == {<<>>, <<1, 1>>}

VARIABLES
    db,                    \* backend table: row id -> status
    today,                 \* the local calendar day of the clock (new Date())
    mounted,               \* App renders AppointmentList (TRUE) or Login (FALSE)
    user,                  \* the user prop of AppointmentList
    appointments,          \* useState([])   the fetched, sorted list
    loading,               \* useState(true)
    error,                 \* useState(null)
    searchTerm,            \* useState('')
    selectedAppointments,  \* useState([])   the selection
    fetches,               \* reads awaiting their response, in issue order
    updates,               \* updates awaiting their response, in issue order
    channels,              \* the users the open realtime channels are filtered on
    notif                  \* change notifications awaiting delivery on the channel

vars == <<db, today, mounted, user, appointments, loading, error, searchTerm,
          selectedAppointments, fetches, updates, channels, notif>>

viewState == <<appointments, loading, error, searchTerm, selectedAppointments>>

(* ----------------------------- helpers -------------------------------- *)
Range(s) == {s[i] : i \in DOMAIN s}

RemoveAt(s, i) == [j \in 1..(Len(s) - 1) |-> IF j < i THEN s[j] ELSE s[j + 1]]

\* every ordering of the elements of the finite set S
Orderings(S) ==
    {s \in [1..Cardinality(S) -> S] : \A i, j \in DOMAIN s : i # j => s[i] # s[j]}

\* the row with identifier id as the backend returns it
Row(id) == [id |-> id, user_id |-> Owner(id), phone_number |-> Phone(id),
            scheduled_for |-> Sched(id), status |-> db[id]]

\* new Date(y, m, d) of day d: the instant of its local midnight
StartOfDay(d) == d * DayLen
StartOfToday == StartOfDay(today)
StartOfTomorrow == StartOfDay(today + 1)

\* mutant: the search matches at the start of the number only
StartsWith(s, t) == Len(t) <= Len(s) /\ SubSeq(s, 1, Len(t)) = t

\* String.prototype.includes
Includes(s, t) ==
    \E k \in 0..(Len(s) - Len(t)) : SubSeq(s, k + 1, k + Len(t)) = t

\* the requests awaiting their response
InFlight == Len(fetches) + Len(updates)

(* ------------------- the backend (hosted service) ---------------------- *)
\* mutant: the read forgets the upper bound of the day window
QueryFilterNoUpperBound(row, uid, start, end) ==
    /\ row.user_id = uid
    /\ \/ row.status = "pending"
       \/ /\ row.status = "cancelado"
          /\ row.scheduled_for >= start

\* the filter of the read: .eq('user_id', uid).or('status.eq.pending,
\* and(status.eq.cancelado,scheduled_for.gte.start,scheduled_for.lt.end)')
QueryFilter(row, uid, start, end) ==
    /\ row.user_id = uid
    /\ \/ row.status = "pending"
       \/ /\ row.status = "cancelado"
          /\ row.scheduled_for >= start
          /\ row.scheduled_for < end

\* the rows a read returns now; the read states no ORDER BY, so the backend
\* may return them in any order
SelectResults(uid, start, end) ==
    Orderings({Row(id) : id \in {k \in Ids : QueryFilter(Row(k), uid, start, end)}})

\* mutant: the update matches on the identifiers alone
UpdateMatchAnyUser(id, ids, uid) == id \in ids

\* the match of an update: .eq('id', ..) / .in('id', ..) with .eq('user_id', uid)
UpdateMatch(id, ids, uid) == id \in ids /\ Owner(id) = uid

(* ------------------------ the ordering rule ---------------------------- *)
\* mutant: the comparator orders by date alone
CompareByDateOnly(a, b) == a.scheduled_for - b.scheduled_for

\* mutant: the second status test returns what the first returns
CompareTierOneWay(a, b) ==
    IF a.status = "pending" /\ b.status = "cancelado" THEN -1
    ELSE IF a.status = "cancelado" /\ b.status = "pending" THEN -1
    ELSE a.scheduled_for - b.scheduled_for

\* the comparator handed to Array.prototype.sort
Compare(a, b) ==
    IF a.status = "pending" /\ b.status = "cancelado" THEN -1
    ELSE IF a.status = "cancelado" /\ b.status = "pending" THEN 1
    ELSE a.scheduled_for - b.scheduled_for

\* x put into the sorted sequence s behind every element that does not
\* compare greater than it (stable)
RECURSIVE InsertSorted(_, _)
InsertSorted(s, x) ==
    IF s = <<>> THEN <<x>>
    ELSE IF Compare(s[Len(s)], x) > 0
         THEN Append(InsertSorted(SubSeq(s, 1, Len(s) - 1), x), s[Len(s)])
         ELSE Append(s, x)

\* fetchedAppointments.sort(comparator): a stable sort
RECURSIVE SortAppointments(_)
SortAppointments(data) ==
    IF data = <<>> THEN <<>>
    ELSE InsertSorted(SortAppointments(SubSeq(data, 1, Len(data) - 1)), data[Len(data)])

(* --------------------------- fetchAppointments ------------------------- *)
\* fetchAppointments of the render whose user is u, up to its await
fetchAppointments(u) ==
    IF u = NoUser
    THEN /\ appointments' = <<>>
         /\ loading' = FALSE
         /\ UNCHANGED <<error, fetches>>
    ELSE /\ loading' = TRUE
         /\ error' = NoError
         /\ fetches' = Append(fetches,
                [uid |-> u, startOfToday |-> StartOfToday,
                 startOfTomorrow |-> StartOfTomorrow, stale |-> FALSE])
         /\ UNCHANGED appointments

\* the reads still awaited once read i has completed; a read issued before
\* i for the same user is superseded from now on
Remaining(i) ==
    LET marked == [j \in DOMAIN fetches |->
                     IF j < i /\ fetches[j].uid = fetches[i].uid
                     THEN [fetches[j] EXCEPT !.stale = TRUE]
                     ELSE fetches[j]]
    IN  RemoveAt(marked, i)

\* the list a successful read stores
StoredList(data) == SortAppointments(data)

\* mutant: a failed read keeps the list it found
FailedReadKeepsList ==
    /\ error' = FetchErrorMessage
    /\ loading' = FALSE
    /\ UNCHANGED appointments

\* mutant: the failure branch returns before the loading state is cleared
FailedReadStaysLoading ==
    /\ error' = FetchErrorMessage
    /\ appointments' = <<>>
    /\ UNCHANGED loading

\* what the continuation does with a failed read
FailedRead ==
    /\ error' = FetchErrorMessage
    /\ appointments' = <<>>
    /\ loading' = FALSE

\* fetchAppointments after its await, read i having failed
FetchFailed(i) ==
    /\ i \in DOMAIN fetches
    /\ FailedRead
    /\ fetches' = Remaining(i)
    /\ UNCHANGED <<db, today, mounted, user, searchTerm, selectedAppointments,
                   updates, channels, notif>>

\* fetchAppointments after its await, read i having returned rows
FetchStored(i) ==
    /\ i \in DOMAIN fetches
    /\ \E rows \in SelectResults(fetches[i].uid, fetches[i].startOfToday,
                                 fetches[i].startOfTomorrow) :
          appointments' = StoredList(rows)
    /\ loading' = FALSE
    /\ fetches' = Remaining(i)
    /\ UNCHANGED <<db, today, mounted, user, error, searchTerm,
                   selectedAppointments, updates, channels, notif>>

(* ------------------- useEffect: first read + subscription -------------- *)
\* mutant: the effect of a render without user leaves the list as it is
NoUserEffectKeepsList ==
    /\ loading' = FALSE
    /\ UNCHANGED <<appointments, error, fetches>>

\* the else branch of the effect: no user, no read
NoUserEffect ==
    /\ appointments' = <<>>
    /\ loading' = FALSE
    /\ UNCHANGED <<error, fetches>>

\* mutant: the cleanup leaves the channel of its effect open
CleanupKeepsChannel(prev) == channels

\* the channels left open by the cleanup of the effect of the render whose
\* user was prev: subscription.unsubscribe()
Cleanup(prev) == channels \ {prev}

\* the effect of a render whose user is u: the cleanup of the previous
\* effect closes its channel, then the body reads and subscribes
RunEffect(u) ==
    /\ notif' = 0
    /\ IF u # NoUser
       THEN /\ fetchAppointments(u)
            /\ channels' = Cleanup(user) \cup {u}
       ELSE /\ NoUserEffect
            /\ channels' = Cleanup(user)

(* ------------------------------- App ----------------------------------- *)
\* a session for u arrives while Login is shown: AppointmentList mounts
Login(u) ==
    /\ ~mounted
    /\ InFlight < MaxInflight
    /\ mounted' = TRUE
    /\ user' = u
    /\ RunEffect(u)
    /\ UNCHANGED <<db, today, searchTerm, selectedAppointments, updates>>

\* a new session object for u (a refreshed token, another account) arrives
\* while AppointmentList is mounted: it is rendered again with the new user
SessionChange(u) ==
    /\ mounted
    /\ InFlight < MaxInflight
    /\ user' = u
    /\ RunEffect(u)
    /\ UNCHANGED <<db, today, mounted, searchTerm, selectedAppointments, updates>>

\* the session ends: App shows Login, the instance and its state are dropped
\* and what its pending continuations set is ignored; what an unserved
\* update still does to the table is one of the changes of ExternalChange
Logout ==
    /\ mounted
    /\ mounted' = FALSE
    /\ user' = NoUser
    /\ channels' = Cleanup(user)
    /\ notif' = 0
    /\ appointments' = <<>>
    /\ loading' = TRUE
    /\ error' = NoError
    /\ searchTerm' = <<>>
    /\ selectedAppointments' = {}
    /\ fetches' = <<>>
    /\ updates' = <<>>
    /\ UNCHANGED <<db, today>>

\* AppointmentList rendered on its own with no user (App never does this)
UserAbsent ==
    /\ mounted
    /\ user # NoUser
    /\ user' = NoUser
    /\ RunEffect(NoUser)
    /\ UNCHANGED <<db, today, mounted, searchTerm, selectedAppointments, updates>>

(* ------------------------ realtime notifications ----------------------- *)
\* the number of events the open channels receive for a change of the rows ids
Events(ids) == Cardinality({id \in ids : Owner(id) \in channels})

\* another system changes the status of a row
ExternalChange(id, st) ==
    /\ st # db[id]
    /\ notif + Events({id}) <= MaxInflight
    /\ db' = [db EXCEPT ![id] = st]
    /\ notif' = notif + Events({id})
    /\ UNCHANGED <<today, mounted, user, viewState, fetches, updates, channels>>

\* mutant: the callback drops the event
OnChangeIgnored(c) == UNCHANGED <<appointments, loading, error, fetches>>

\* the postgres_changes callback of the channel filtered on c: whatever the
\* payload, it calls the fetchAppointments of the render that subscribed
OnChange(c) == fetchAppointments(c)

\* an event is delivered on an open channel
NotifyDeliver ==
    /\ notif > 0
    /\ InFlight < MaxInflight
    /\ notif' = notif - 1
    /\ \E c \in channels : OnChange(c)
    /\ UNCHANGED <<db, today, mounted, user, searchTerm, selectedAppointments,
                   updates, channels>>

(* ------------------------------ the view ------------------------------- *)
\* the table is rendered only past the two early returns of the render
Rendered == mounted /\ ~loading /\ error = NoError

\* appointments.filter(app => app.phone_number.includes(searchTerm))
filteredAppointments ==
    SelectSeq(appointments, LAMBDA app : Includes(app.phone_number, searchTerm))

\* mutant: select-all takes the cancelled rows too
SelectableWithCancelled == {app.id : app \in Range(filteredAppointments)}

\* filteredAppointments.filter(app => app.status !== 'cancelado').map(app => app.id)
Selectable == {app.id : app \in {a \in Range(filteredAppointments) : a.status # "cancelado"}}

\* the checked attribute of the select-all checkbox
HeaderChecked ==
    /\ Cardinality(selectedAppointments) = Cardinality(Selectable)
    /\ Cardinality(Selectable) > 0

\* the search input's onChange
SetSearchTerm(t) ==
    /\ Rendered
    /\ t # searchTerm
    /\ searchTerm' = t
    /\ UNCHANGED <<db, today, mounted, user, appointments, loading, error,
                   selectedAppointments, fetches, updates, channels, notif>>

\* the rows that show a checkbox and a cancel button
Offered(id) ==
    \E app \in Range(filteredAppointments) : app.id = id /\ app.status # "cancelado"

\* mutant: a click on the checkbox of a selected row leaves it selected
ToggledAddsOnly(id) == selectedAppointments \cup {id}

\* the selection after the checkbox of row id is clicked
Toggled(id) ==
    IF id \notin selectedAppointments
    THEN selectedAppointments \cup {id}
    ELSE selectedAppointments \ {id}

\* the row checkbox's onChange
ToggleSelection(id) ==
    /\ Rendered
    /\ Offered(id)
    /\ selectedAppointments' = Toggled(id)
    /\ UNCHANGED <<db, today, mounted, user, appointments, loading, error,
                   searchTerm, fetches, updates, channels, notif>>

\* mutant: select-all adds to what is selected
SelectedByAllAdds(checked) ==
    IF checked THEN selectedAppointments \cup Selectable ELSE {}

\* the selection after the select-all checkbox changes to checked
SelectedByAll(checked) == IF checked THEN Selectable ELSE {}

\* the select-all checkbox's onChange: a click inverts what is rendered
SelectAllVisible ==
    /\ Rendered
    /\ filteredAppointments # <<>>
    /\ selectedAppointments' = SelectedByAll(~HeaderChecked)
    /\ UNCHANGED <<db, today, mounted, user, appointments, loading, error,
                   searchTerm, fetches, updates, channels, notif>>

(* ------------------------------ cancelling ----------------------------- *)
UpdateRequest(kind, ids) ==
    [kind |-> kind, ids |-> ids, uid |-> user]

\* handleCancelAppointment up to its await; reading user.id of no user throws
handleCancelAppointment(id, confirmed) ==
    /\ Rendered
    /\ Offered(id)
    /\ IF confirmed /\ user # NoUser
       THEN /\ InFlight < MaxInflight
            /\ updates' = Append(updates, UpdateRequest("one", {id}))
       ELSE /\ UNCHANGED updates
    /\ UNCHANGED <<db, today, mounted, user, viewState, fetches, channels, notif>>

\* mutant: the handler sends its update for an empty selection too
EmptySelectionSendsUpdate ==
    /\ InFlight < MaxInflight
    /\ updates' = Append(updates, UpdateRequest("batch", selectedAppointments))

\* the handler finding nothing selected: an alert, and it returns
EmptySelectionNotice == UNCHANGED updates

\* the body of handleCancelSelectedAppointments up to its await
CancelSelectedBody(confirmed) ==
    IF Cardinality(selectedAppointments) = 0
    THEN EmptySelectionNotice
    ELSE IF confirmed /\ user # NoUser
    THEN /\ InFlight < MaxInflight
         /\ updates' = Append(updates, UpdateRequest("batch", selectedAppointments))
    ELSE UNCHANGED updates

\* handleCancelSelectedAppointments up to its await; its button is rendered
\* only while something is selected
handleCancelSelectedAppointments(confirmed) ==
    /\ Rendered
    /\ selectedAppointments # {}
    /\ CancelSelectedBody(confirmed)
    /\ UNCHANGED <<db, today, mounted, user, viewState, fetches, channels, notif>>

\* handleCancelSelectedAppointments called while nothing is selected (the
\* rendered page offers no button for it then)
CancelSelectedCalled(confirmed) ==
    /\ mounted
    /\ selectedAppointments = {}
    /\ CancelSelectedBody(confirmed)
    /\ UNCHANGED <<db, today, mounted, user, viewState, fetches, channels, notif>>

\* mutant: a failed batch update clears the selection
FailedUpdateClearsSelection(i) ==
    /\ selectedAppointments' =
          IF updates[i].kind = "batch" THEN {} ELSE selectedAppointments
    /\ UNCHANGED <<appointments, loading, error, searchTerm, fetches>>

\* mutant: a failed update refreshes the list all the same
FailedUpdateRefreshes(i) ==
    /\ fetchAppointments(updates[i].uid)
    /\ UNCHANGED <<searchTerm, selectedAppointments>>

\* what a cancel handler does once its update has failed: an alert, nothing
\* else
AfterFailedUpdate(i) == UNCHANGED <<viewState, fetches>>

\* a cancel handler after its await, update i having failed
UpdateFailed(i) ==
    /\ i \in DOMAIN updates
    /\ updates' = RemoveAt(updates, i)
    /\ AfterFailedUpdate(i)
    /\ UNCHANGED <<db, today, mounted, user, channels, notif>>

\* mutant: a successful batch update leaves the selection as it is
SelectionAfterKept(kind) == selectedAppointments

\* the selection a cancel handler leaves after a successful update
SelectionAfter(kind) == IF kind = "batch" THEN {} ELSE selectedAppointments

\* a cancel handler after its await, update i having succeeded: the backend
\* has set the matching rows to cancelado and emits one event per row
UpdateDone(i) ==
    /\ i \in DOMAIN updates
    /\ LET hit == {id \in Ids : UpdateMatch(id, updates[i].ids, updates[i].uid)}
       IN  /\ notif + Events(hit) <= MaxInflight
           /\ db' = [id \in Ids |-> IF id \in hit THEN "cancelado" ELSE db[id]]
           /\ notif' = notif + Events(hit)
    /\ updates' = RemoveAt(updates, i)
    /\ fetchAppointments(updates[i].uid)
    /\ selectedAppointments' = SelectionAfter(updates[i].kind)
    /\ UNCHANGED <<today, mounted, user, searchTerm, channels>>

(* --------------------------- specifications ---------------------------- *)
Init ==
    /\ db \in {d \in [Ids -> Statuses] : \A id \in Ids : d[id] \in RowStatuses(id)}
    /\ today = 1
    /\ mounted = FALSE
    /\ user = NoUser
    /\ appointments = <<>>
    /\ loading = TRUE
    /\ error = NoError
    /\ searchTerm = <<>>
    /\ selectedAppointments = {}
    /\ fetches = <<>>
    /\ updates = <<>>
    /\ channels = {}
    /\ notif = 0

Next ==
    \/ \E u \in Users : Login(u)
    \/ \E u \in Users : SessionChange(u)
    \/ Logout
    \/ \E i \in 1..MaxInflight : FetchFailed(i)
    \/ \E i \in 1..MaxInflight : FetchStored(i)
    \/ \E id \in Ids : \E st \in RowStatuses(id) : ExternalChange(id, st)
    \/ NotifyDeliver
    \/ \E t \in SearchTerms : SetSearchTerm(t)
    \/ \E id \in Ids : ToggleSelection(id)
    \/ SelectAllVisible
    \/ \E id \in Ids, c \in BOOLEAN : handleCancelAppointment(id, c)
    \/ \E c \in BOOLEAN : handleCancelSelectedAppointments(c)
    \/ \E i \in 1..MaxInflight : UpdateFailed(i)
    \/ \E i \in 1..MaxInflight : UpdateDone(i)

Spec == Init /\ [][Next]_vars

\* the backend answers a read that is awaited: await query resumes
ReadAnswered == \E i \in 1..MaxInflight : FetchFailed(i) \/ FetchStored(i)

\* the component under App with a backend that answers every read
SpecLive == Init /\ [][Next]_vars /\ WF_vars(ReadAnswered)

\* the component on its own: a parent that may pass no user, and a caller
\* of handleCancelSelectedAppointments other than its button
NextView ==
    \/ Next
    \/ UserAbsent
    \/ \E c \in BOOLEAN : CancelSelectedCalled(c)

SpecView == Init /\ [][NextView]_vars

(* ============================== claims ================================= *)

\* C1: refreshes for one identity are serialized: the response of a read
\* that a later-issued read for the same user has already superseded is
\* discarded, i.e. the step handling it leaves the list and the error alone.
C1_StaleResponseDiscarded ==
    [][\A i \in DOMAIN fetches :
          (fetches[i].stale /\ (FetchStored(i) \/ FetchFailed(i)))
             => UNCHANGED <<appointments, error>>]_vars

\* C2: in every reachable state every record of the visible list belongs to
\* the current identity.
C2_ListOfCurrentUser ==
    \A rec \in Range(appointments) : rec.user_id = user

\* no record that the list shows as cancelado is selected
CancelledUnselected ==
    \A rec \in Range(appointments) :
        rec.status = "cancelado" => rec.id \notin selectedAppointments

\* C3: with the visible list fixed, no step (toggleSelection,
\* selectAllVisible or any other) puts the identifier of a record shown as
\* cancelado into the selection.
C3_CancelledNeverSelected ==
    [][(UNCHANGED appointments /\ CancelledUnselected) => CancelledUnselected']_vars

\* a cancelled row is on display and select-all has selected the others
C3_Witness ==
    /\ Rendered
    /\ \E rec \in Range(filteredAppointments) : rec.status = "cancelado"
    /\ selectedAppointments # {}
    /\ selectedAppointments = Selectable

\* C4: in every reachable state, re-fetches included, no selected
\* identifier belongs to a record whose status in the list is cancelado.
C4_SelectionExcludesCancelled ==
    \A id \in selectedAppointments :
        \A rec \in Range(appointments) : rec.id = id => rec.status # "cancelado"

\* C5: in every reachable state the selection is a subset of the
\* identifiers of the rows on display (the search-filtered list).
C5_SelectionWithinVisible ==
    selectedAppointments \subseteq {app.id : app \in Range(filteredAppointments)}

\* C6: every record a successful refresh stores belongs to the user the
\* read was issued for and is pending, or cancelado and scheduled within
\* [startOfToday, startOfTomorrow) as computed when the read was issued.
C6_StoredMatchesFilter ==
    [][\A i \in DOMAIN fetches :
          FetchStored(i) =>
            \A rec \in Range(appointments') :
               /\ rec.user_id = fetches[i].uid
               /\ \/ rec.status = "pending"
                  \/ /\ rec.status = "cancelado"
                     /\ rec.scheduled_for >= fetches[i].startOfToday
                     /\ rec.scheduled_for < fetches[i].startOfTomorrow]_vars

\* the list shows a row cancelled today while another cancelled row of the
\* same user, scheduled on another day, is left out
C6_Witness ==
    /\ Rendered
    /\ \E rec \in Range(appointments) : rec.status = "cancelado"
    /\ \E id \in Ids :
          /\ Owner(id) = user
          /\ db[id] = "cancelado"
          /\ \A rec \in Range(appointments) : rec.id # id

\* the rows the backend holds for read i
Fetched(i) ==
    {Row(k) : k \in {id \in Ids : QueryFilter(Row(id), fetches[i].uid,
                        fetches[i].startOfToday, fetches[i].startOfTomorrow)}}

\* every pending record comes before every cancelado record, and any other
\* two records come in ascending order of scheduled_for
Ordered(l) ==
    \A i, j \in DOMAIN l :
       i < j =>
         /\ ~(l[i].status = "cancelado" /\ l[j].status = "pending")
         /\ ~(l[i].status = "pending" /\ l[j].status = "cancelado")
               => l[i].scheduled_for <= l[j].scheduled_for

\* C7: the list a successful refresh stores is a permutation of the fetched
\* rows in which pending records precede cancelado ones and all other pairs
\* are in ascending order of scheduled_for.
C7_StoredSortedPermutation ==
    [][\A i \in DOMAIN fetches :
          FetchStored(i) =>
            /\ Range(appointments') = Fetched(i)
            /\ Len(appointments') = Cardinality(Fetched(i))
            /\ Ordered(appointments')]_vars

\* a pending record is listed before a cancelled one scheduled earlier
C7_Witness ==
    /\ Rendered
    /\ Len(appointments) = 2
    /\ appointments[1].status = "pending"
    /\ appointments[2].status = "cancelado"
    /\ appointments[1].scheduled_for > appointments[2].scheduled_for

\* the rows of the table, the records the comparator may be handed
AllRows == {Row(id) : id \in Ids}

Antisymmetric(a, b) ==
    /\ Compare(a, b) < 0 <=> Compare(b, a) > 0
    /\ Compare(a, b) = 0 <=> Compare(b, a) = 0

Transitive(a, b, c) ==
    (Compare(a, b) <= 0 /\ Compare(b, c) <= 0) => Compare(a, c) <= 0

\* C8 as stated: the comparator is antisymmetric and transitive over all
\* records, those with a legacy status included.
C8_TotalOrderAllStatuses ==
    \A a, b, c \in AllRows : Antisymmetric(a, b) /\ Transitive(a, b, c)

\* C8 as amended: the comparator is antisymmetric over all records and
\* transitive over the records whose status is pending or cancelado.
C8_TotalOrderFetchedStatuses ==
    /\ \A a, b \in AllRows : Antisymmetric(a, b)
    /\ \A a, b, c \in {r \in AllRows : r.status \in {"pending", "cancelado"}} :
          Transitive(a, b, c)

\* the table holds only pending and cancelado rows, and the status tier
\* puts a pending row before a cancelled one scheduled earlier
C8_Witness ==
    /\ \A r \in AllRows : r.status \in {"pending", "cancelado"}
    /\ \E a, b \in AllRows :
          /\ a.status = "pending"
          /\ b.status = "cancelado"
          /\ a.scheduled_for > b.scheduled_for
          /\ Compare(a, b) < 0

\* C9: when the identity becomes absent the refresh issues no read, empties
\* the visible list and clears the loading state.
C9_AbsentUserClearsList ==
    [][(mounted' /\ user # NoUser /\ user' = NoUser)
          => (fetches' = fetches /\ appointments' = <<>> /\ loading' = FALSE)]_vars

\* the view is mounted without a user, its list empty and not loading
C9_Witness ==
    mounted /\ user = NoUser /\ appointments = <<>> /\ ~loading

\* C10: when the read of a refresh fails the error is set, the visible list
\* is emptied and the loading state is cleared.
C10_FailedReadClears ==
    [][\A i \in DOMAIN fetches :
          FetchFailed(i) =>
            (error' # NoError /\ appointments' = <<>> /\ loading' = FALSE)]_vars

\* a failed read has left its error, an empty list and no loading state
C10_Witness ==
    mounted /\ error # NoError /\ appointments = <<>> /\ ~loading

\* C11: handleCancelSelectedAppointments called with an empty selection
\* issues no backend request and leaves the visible list, the selection, the
\* loading state and the error state unchanged.
C11_EmptySelectionNoOp ==
    [][\A c \in BOOLEAN :
          CancelSelectedCalled(c) =>
             UNCHANGED <<updates, fetches, db, appointments,
                         selectedAppointments, loading, error>>]_vars

\* the page shows rows, nothing is selected and a request could be sent
C11_Witness ==
    /\ Rendered
    /\ appointments # <<>>
    /\ selectedAppointments = {}
    /\ InFlight < MaxInflight

\* the rows an update request cancels
Hit(req) == {id \in Ids : id \in req.ids /\ Owner(id) = req.uid}

\* C12: a confirmed batch cancel of a non-empty selection issues exactly one
\* batch update for the selected identifiers and the current user, and
\* nothing else; when that update succeeds exactly the rows with id in the
\* request and user_id equal to its user become cancelado, the selection is
\* cleared and one read is issued.
C12_BatchCancel ==
    [][/\ handleCancelSelectedAppointments(TRUE) =>
            /\ updates' = Append(updates, [kind |-> "batch",
                                           ids |-> selectedAppointments,
                                           uid |-> user])
            /\ UNCHANGED <<db, fetches, viewState>>
       /\ \A i \in DOMAIN updates :
            (UpdateDone(i) /\ updates[i].kind = "batch") =>
               /\ db' = [id \in Ids |-> IF id \in Hit(updates[i])
                                        THEN "cancelado" ELSE db[id]]
               /\ selectedAppointments' = {}
               /\ Len(fetches') = Len(fetches) + 1
               /\ fetches'[Len(fetches')].uid = updates[i].uid]_vars

\* the batch update of a selection of two rows awaits its response
C12_Witness ==
    \E i \in DOMAIN updates :
       /\ updates[i] = [kind |-> "batch", ids |-> selectedAppointments, uid |-> user]
       /\ Cardinality(selectedAppointments) = 2

\* C13: when the batch update fails the selection and the visible list are
\* unchanged and no read is issued.
C13_BatchFailureKeepsState ==
    [][\A i \in DOMAIN updates :
          (UpdateFailed(i) /\ updates[i].kind = "batch") =>
             UNCHANGED <<selectedAppointments, appointments, fetches>>]_vars

\* a batch update awaits its response while the page shows the list and the
\* selection, and no read is awaited
C13_Witness ==
    /\ Rendered
    /\ appointments # <<>>
    /\ selectedAppointments # {}
    /\ fetches = <<>>
    /\ \E i \in DOMAIN updates : updates[i].kind = "batch"

\* C14: a confirmed cancel of one row issues exactly one update request,
\* matching that id and the current user; when it succeeds exactly the
\* matching row becomes cancelado and the handler issues exactly one read.
C14_CancelOne ==
    [][/\ \A id \in Ids :
            (handleCancelAppointment(id, TRUE) /\ user # NoUser) =>
               /\ updates' = Append(updates, [kind |-> "one", ids |-> {id},
                                              uid |-> user])
               /\ UNCHANGED <<db, fetches>>
       /\ \A i \in DOMAIN updates :
            (UpdateDone(i) /\ updates[i].kind = "one") =>
               /\ db' = [id \in Ids |-> IF id \in Hit(updates[i])
                                        THEN "cancelado" ELSE db[id]]
               /\ Len(updates') = Len(updates) - 1
               /\ Len(fetches') = Len(fetches) + 1
               /\ SubSeq(fetches', 1, Len(fetches)) = fetches
               /\ fetches'[Len(fetches')].uid = updates[i].uid]_vars

\* the update of one pending row of the current user awaits its response
C14_Witness ==
    \E i \in DOMAIN updates :
       /\ updates[i].kind = "one"
       /\ updates[i].uid = user
       /\ \A id \in updates[i].ids : Owner(id) = user /\ db[id] = "pending"

\* C15: a cancel of one row changes nothing locally before the server has
\* answered: declined, it issues no request; confirmed, the step that sends
\* the request leaves the component state alone; and when the update fails
\* the visible list, the selection and the error state are unchanged and no
\* read is issued.
C15_CancelOneNoLocalMutation ==
    [][/\ \A id \in Ids :
            handleCancelAppointment(id, FALSE) =>
               UNCHANGED <<updates, db, fetches, viewState>>
       /\ \A id \in Ids :
            handleCancelAppointment(id, TRUE) => UNCHANGED <<db, fetches, viewState>>
       /\ \A i \in DOMAIN updates :
            (UpdateFailed(i) /\ updates[i].kind = "one") =>
               UNCHANGED <<appointments, selectedAppointments, error,
                           fetches, db>>]_vars

\* the update of one row awaits its response while the page shows the list
\* with that row selected
C15_Witness ==
    /\ Rendered
    /\ \E i \in DOMAIN updates :
          /\ updates[i].kind = "one"
          /\ updates[i].ids \subseteq selectedAppointments
          /\ \E app \in Range(appointments) : app.id \in updates[i].ids

\* the identifiers of the rows on display that are not cancelled
VisibleNotCancelled ==
    {app.id : app \in {a \in Range(appointments) :
                          /\ Includes(a.phone_number, searchTerm)
                          /\ a.status # "cancelado"}}

\* C16: the select-all checkbox changing to checked sets the selection to
\* exactly the identifiers of the rows on display (after search filtering)
\* that are not cancelado, whatever was selected before; changing to
\* unchecked sets it to empty.
C16_SelectAllExact ==
    [][SelectAllVisible =>
          selectedAppointments' =
             IF HeaderChecked THEN {} ELSE VisibleNotCancelled]_vars

\* the search hides a row and select-all has selected exactly the rows on
\* display that are not cancelled
C16_Witness ==
    /\ Rendered
    /\ Len(filteredAppointments) < Len(appointments)
    /\ selectedAppointments # {}
    /\ selectedAppointments = VisibleNotCancelled

\* C17: a click on the checkbox of row id flips the membership of id in the
\* selection and of no other identifier, and a second click restores the
\* selection; the row clicked is never a cancelado one, as those show no
\* checkbox.
C17_ToggleFlipsOne ==
    [][\A id \in Ids :
          ToggleSelection(id) =>
             /\ id \in selectedAppointments' <=> id \notin selectedAppointments
             /\ \A other \in Ids \ {id} :
                   other \in selectedAppointments' <=> other \in selectedAppointments
             /\ Toggled(id)' = selectedAppointments
             /\ \A app \in Range(appointments) :
                   app.id = id => app.status # "cancelado"]_vars

\* with every row on display, one row that shows a checkbox is selected and
\* another is not
C17_Witness ==
    /\ Rendered
    /\ searchTerm = <<>>
    /\ \E id \in Selectable : id \in selectedAppointments
    /\ \E id \in Selectable : id \notin selectedAppointments

\* C18: at most one change subscription is open; while the view is mounted
\* with a user it is filtered on that user, and none is open once the view
\* is unmounted or has no user, so none for a previous user stays open.
C18_OneSubscriptionOfCurrentUser ==
    /\ Cardinality(channels) <= 1
    /\ channels \subseteq (IF mounted /\ user # NoUser THEN {user} ELSE {})

\* the user has changed from u1 to u2 without an unmount (the list still
\* holds a row of u1) and the one open channel is filtered on u2
C18_Witness ==
    /\ mounted
    /\ user = "u2"
    /\ channels = {"u2"}
    /\ \E app \in Range(appointments) : app.user_id = "u1"

\* C19: every notification delivered on the open subscription issues one
\* read for the current user and does not touch the visible list.
C19_NotificationRefetches ==
    [][NotifyDeliver =>
          /\ Len(fetches') = Len(fetches) + 1
          /\ SubSeq(fetches', 1, Len(fetches)) = fetches
          /\ fetches'[Len(fetches')].uid = user
          /\ appointments' = appointments]_vars

\* one notification has started a read over the list on display while
\* another still awaits delivery
C19_Witness ==
    /\ mounted
    /\ notif = 1
    /\ Len(fetches) = 1
    /\ fetches[1].uid = user
    /\ loading
    /\ appointments # <<>>
    /\ updates = <<>>

\* C20: in every reachable state in which a read issued by a refresh still
\* awaits its response, loading is true, overlapping refreshes included.
C20_LoadingWhileReading ==
    (mounted /\ fetches # <<>>) => loading

\* t occurs in s: s is some prefix, then t, then some suffix
Occurs(s, t) ==
    \E a, b \in 0..Len(s) :
       /\ a + Len(t) + b = Len(s)
       /\ SubSeq(s, 1, a) \o t \o SubSeq(s, Len(s) - b + 1, Len(s)) = s

\* C21: a change of the search term issues no backend request and leaves
\* the fetched list and the selection unchanged; it only changes the rows on
\* display, which become the records of the list whose phone_number contains
\* the term, in the order of the list.
C21_SearchOnlyFilters ==
    [][\A t \in SearchTerms :
          SetSearchTerm(t) =>
             /\ UNCHANGED <<fetches, updates, db, appointments,
                            selectedAppointments, loading, error>>
             /\ filteredAppointments' =
                   SelectSeq(appointments, LAMBDA app : Occurs(app.phone_number, t))]_vars

\* the search term shows a row that holds it past its first digit and hides
\* a selected row
C21_Witness ==
    /\ Rendered
    /\ searchTerm # <<>>
    /\ \E app \in Range(filteredAppointments) :
          SubSeq(app.phone_number, 1, Len(searchTerm)) # searchTerm
    /\ \E app \in Range(appointments) :
          /\ app.id \in selectedAppointments
          /\ app \notin Range(filteredAppointments)

\* a step in which fetchAppointments issues a read
StartsRefresh == Len(fetches') > Len(fetches)

\* C22: if every read issued is answered in the end (the fairness of
\* SpecLive) and from some point on no further refresh is started, then from
\* some point on the loading state of the mounted view is false for ever.
C22_LoadingEventuallyCleared ==
    <>[][~StartsRefresh]_vars => <>[](mounted => ~loading)

\* every read has been answered and the mounted view is not loading
C22_Witness ==
    /\ mounted
    /\ ~loading
    /\ fetches = <<>>
    /\ updates = <<>>
    /\ notif = 0

\* C23: in every reachable state in which the error state is set the
\* visible list is empty.
C23_ErrorImpliesEmptyList ==
    error # NoError => appointments = <<>>

\* C24: when a batch update succeeds, every identifier that leaves the
\* selection was one of the identifiers of that update's request.
C24_ClearedWereCancelled ==
    [][\A i \in DOMAIN updates :
          (UpdateDone(i) /\ updates[i].kind = "batch") =>
             (selectedAppointments \ selectedAppointments') \subseteq updates[i].ids]_vars

====
